---- MODULE Spec2Model ----
(***************************************************************************)
(* Model of psychro.py: the psychrometric functions p, pvs, w, wsp, v and  *)
(* the plotting helpers chart and chartA.                                  *)
(*                                                                         *)
(* Numbers.  A Python float is modelled as a decimal floating-point number *)
(* m * 10^e whose mantissa m keeps eight significant digits                *)
(* (10^7 <= |m| < 10^8, or m = 0), every operation rounding its result to  *)
(* that format.  Beside the finite values there are the outcomes the       *)
(* interpreter produces for the out-of-domain cases: "inf" and "nan"       *)
(* (numpy arithmetic), "cplx" (Python's float ** float with a negative     *)
(* base returns a complex number) and "err" (a raised exception, such as   *)
(* ZeroDivisionError for a Python float division by zero).  The field np   *)
(* tells whether the value is a numpy value (numpy.float64 or an element   *)
(* of a numpy array) or a built-in Python number: the two differ in what   *)
(* division by zero and a negative base do.                                *)
(***************************************************************************)
EXTENDS Integers, Sequences, FiniteSets, TLC

Pow10 == <<10, 100, 1000, 10000, 100000, 1000000, 10000000, 100000000, 1000000000>>

P10(k) == IF k = 0 THEN 1 ELSE Pow10[k]

MantLo == P10(7)

MantHi == P10(8)

Abs(n) == IF n < 0 THEN -n ELSE n

Sgn(n) == IF n < 0 THEN -1 ELSE IF n = 0 THEN 0 ELSE 1

Fin(m, e, np) == [k |-> "fin", m |-> m, e |-> e, np |-> np]

Zero(np) == Fin(0, 0, np)

Inf(s, np) == [k |-> "inf", m |-> s, e |-> 0, np |-> np]

NaN(np) == [k |-> "nan", m |-> 0, e |-> 0, np |-> np]

Cplx(np) == [k |-> "cplx", m |-> 0, e |-> 0, np |-> np]

Err == [k |-> "err", m |-> 0, e |-> 0, np |-> FALSE]

\* TLC hands an operator its arguments unevaluated and evaluates them again
\* at every use.  Where an argument is costly the operators below first
\* bind its value once: CHOOSE r \in {Op(a) : a \in {x}} : TRUE is Op(x).
\* Number of decimal digits of a positive integer below 2^31.
NumDigits(a) ==
    IF a < 10 THEN 1 ELSE IF a < 100 THEN 2 ELSE IF a < 1000 THEN 3
    ELSE IF a < 10000 THEN 4 ELSE IF a < 100000 THEN 5
    ELSE IF a < 1000000 THEN 6 ELSE IF a < 10000000 THEN 7
    ELSE IF a < 100000000 THEN 8 ELSE IF a < 1000000000 THEN 9 ELSE 10

\* a / d rounded to nearest (a >= 0, d > 0).
RoundDiv(a, d) == (a + (d \div 2)) \div d

NormV(m, e, np) ==
    IF m = 0 THEN Zero(np)
    ELSE LET a == Abs(m)
             n == NumDigits(a)
         IN  IF n <= 8 THEN Fin(m * P10(8 - n), e - (8 - n), np)
             ELSE LET q == RoundDiv(a, P10(n - 8))
                  IN  IF q >= MantHi
                      THEN Fin(Sgn(m) * MantLo, e + (n - 8) + 1, np)
                      ELSE Fin(Sgn(m) * q, e + (n - 8), np)

\* The float nearest to m * 10^e, for any integer m.
Norm(m, e, np) == CHOOSE r0 \in {NormV(a0, b0, np) : a0 \in {m}, b0 \in {e}} : TRUE

\* A decimal literal m * 10^e and an int, as Python floats.
Dec(m, e) == Norm(m, e, FALSE)

FInt(n) == Norm(n, 0, FALSE)

\* The same value as a numpy value (numpy.float64, or an array element).
AsNp(x) == [x EXCEPT !.np = TRUE]

IsFin(x) == x.k = "fin"

NegV(x) ==
    IF x.k = "fin" \/ x.k = "inf" THEN [x EXCEPT !.m = -x.m] ELSE x

\* -x
FNeg(x) == (CHOOSE r19 \in {NegV(a19) : a19 \in {x}} : TRUE)

\* The outcome of a binary operation when an operand is not a real number:
\* a raised exception propagates, then complex, then nan.
Special(x, y) ==
    IF x.k = "err" \/ y.k = "err" THEN Err
    ELSE IF x.k = "cplx" \/ y.k = "cplx" THEN Cplx(x.np \/ y.np)
    ELSE NaN(x.np \/ y.np)

IsSpecial(x, y) == x.k \in {"err", "cplx", "nan"} \/ y.k \in {"err", "cplx", "nan"}

AddV(x, y) ==
    LET np == x.np \/ y.np
    IN  IF IsSpecial(x, y) THEN Special(x, y)
        ELSE IF x.k = "inf" /\ y.k = "inf"
             THEN (IF x.m = y.m THEN Inf(x.m, np) ELSE NaN(np))
        ELSE IF x.k = "inf" THEN Inf(x.m, np)
        ELSE IF y.k = "inf" THEN Inf(y.m, np)
        ELSE IF x.m = 0 THEN [y EXCEPT !.np = np]
        ELSE IF y.m = 0 THEN [x EXCEPT !.np = np]
        ELSE LET hi == IF x.e >= y.e THEN x ELSE y
                 lo == IF x.e >= y.e THEN y ELSE x
                 d  == hi.e - lo.e
             IN  IF d > 9 THEN [hi EXCEPT !.np = np]
                 ELSE LET b == IF d = 0 THEN lo.m * 10
                               ELSE Sgn(lo.m) * RoundDiv(Abs(lo.m), P10(d - 1))
                      IN  Norm((hi.m * 10) + b, hi.e - 1, np)

\* x + y
FAdd(x, y) == (CHOOSE r18 \in {AddV(a18, b18) : a18 \in {x}, b18 \in {y}} : TRUE)

\* x - y
FSub(x, y) == FAdd(x, FNeg(y))

MulV(x, y) ==
    LET np == x.np \/ y.np
    IN  IF IsSpecial(x, y) THEN Special(x, y)
        ELSE IF x.k = "inf" \/ y.k = "inf"
             THEN (IF x.m = 0 \/ y.m = 0 THEN NaN(np)
                   ELSE Inf(Sgn(x.m) * Sgn(y.m), np))
        ELSE IF x.m = 0 \/ y.m = 0 THEN Zero(np)
        ELSE LET a  == Abs(x.m)
                 b  == Abs(y.m)
                 a1 == a \div 10000
                 a0 == a % 10000
                 b1 == b \div 10000
                 b0 == b % 10000
                 p0 == a0 * b0
                 mid == (a1 * b0) + (a0 * b1) + (p0 \div 10000)
                 q8 == (a1 * b1) + (mid \div 10000)
                 r8 == ((mid % 10000) * 10000) + (p0 % 10000)
                 s  == Sgn(x.m) * Sgn(y.m)
             IN  IF q8 >= MantLo
                 THEN Norm(s * (q8 + (IF r8 >= 50000000 THEN 1 ELSE 0)),
                           x.e + y.e + 8, np)
                 ELSE Norm(s * ((q8 * 10) + (r8 \div 10000000)
                                + (IF (r8 % 10000000) >= 5000000 THEN 1 ELSE 0)),
                           x.e + y.e + 7, np)

\* x * y
FMul(x, y) == (CHOOSE r17 \in {MulV(a17, b17) : a17 \in {x}, b17 \in {y}} : TRUE)

\* Long division: n more quotient digits of r / b appended to acc.
RECURSIVE DivDigits(_, _, _, _)
DivDigits(r, b, n, acc) ==
    IF n = 0 THEN <<acc, r>>
    ELSE DivDigits((r * 10) % b, b, n - 1, (acc * 10) + ((r * 10) \div b))

\* The quotient |x.m| / |y.m| to eight digits, rounded to nearest.
Quot(qr, b) == qr[1] + (IF 2 * qr[2] >= b THEN 1 ELSE 0)

DivV(x, y) ==
    LET np == x.np \/ y.np
    IN  IF IsSpecial(x, y) THEN Special(x, y)
        ELSE IF y.k = "inf"
             THEN (IF x.k = "inf" THEN NaN(np) ELSE Zero(np))
        ELSE IF y.m = 0
             THEN (IF ~np THEN Err
                   ELSE IF x.m = 0 THEN NaN(np)
                   ELSE Inf(Sgn(x.m), np))
        ELSE IF x.k = "inf" THEN Inf(x.m * Sgn(y.m), np)
        ELSE IF x.m = 0 THEN Zero(np)
        ELSE LET a  == Abs(x.m)
                 b  == Abs(y.m)
                 n  == IF a >= b THEN 7 ELSE 8
             IN  Norm(Sgn(x.m) * Sgn(y.m)
                         * (CHOOSE r16 \in {Quot(a16, b16) : a16 \in {DivDigits(a % b, b, n, a \div b)}, b16 \in {b}} : TRUE),
                      x.e - y.e - n, np)

\* x / y.  A Python float division by zero raises ZeroDivisionError; numpy
\* returns inf (or nan for 0/0) with a warning.
FDiv(x, y) == (CHOOSE r15 \in {DivV(a15, b15) : a15 \in {x}, b15 \in {y}} : TRUE)

Neg(d) == d.k = "fin" /\ d.m < 0

NegOrZero(d) == d.k = "fin" /\ d.m <= 0

\* x < y and x <= y (false when x or y is nan, complex or a raised exception)
FLt(x, y) == \E d \in {FSub(x, y)} : Neg(d)

FLe(x, y) == \E d \in {FSub(x, y)} : NegOrZero(d)

\* x == y for finite x and y
FEq(x, y) == \E a \in {x}, b \in {y} : IsFin(a) /\ IsFin(b) /\ a.m = b.m /\ a.e = b.e

One == FInt(1)

LN10 == Dec(23025851, -7)

LN2 == Dec(69314718, -8)

\* Number of terms of the exponential's and of the logarithm's series.
ExpTerms == 14

LogTerms == 9

ToIntV(x) ==
    IF x.m = 0 \/ -x.e > 9 THEN 0
    ELSE IF x.e >= 0 THEN x.m * P10(x.e)
    ELSE Sgn(x.m) * (Abs(x.m) \div P10(-x.e))

\* Integer part (toward zero) of a finite x with |x| < 10^9.
ToInt(x) == (CHOOSE r14 \in {ToIntV(a14) : a14 \in {x}} : TRUE)

\* 1 + r/1 * (1 + r/2 * (1 + ... (1 + r/n))): the Taylor series of exp(r).
RECURSIVE ExpSeries(_, _, _)
ExpSeries(r, i, acc) ==
    IF i = 0 THEN acc
    ELSE CHOOSE s \in {ExpSeries(r, i - 1, a) :
                          a \in {FAdd(One, FDiv(FMul(r, acc), FInt(i)))}} : TRUE

ExpSum(r) == ExpSeries(r, ExpTerms, One)

\* The nearest integer to x / ln 10.
ExpK(q) == ToInt(FAdd(q, IF q.m < 0 THEN Dec(-5, -1) ELSE Dec(5, -1)))

\* exp(x) = 10^k * exp(x - k * ln 10)
ExpScale(s, k) == Fin(s.m, s.e + k, TRUE)

ExpReduce(x, k) == (CHOOSE r13 \in {ExpScale(a13, b13) : a13 \in {(CHOOSE r12 \in {ExpSum(a12) : a12 \in {FSub(x, FMul(FInt(k), LN10))}} : TRUE)}, b13 \in {k}} : TRUE)

ExpV(x) ==
    IF x.k = "err" THEN Err
    ELSE IF x.k = "cplx" THEN Cplx(TRUE)
    ELSE IF x.k = "nan" THEN NaN(TRUE)
    ELSE IF x.k = "inf" THEN (IF x.m > 0 THEN Inf(1, TRUE) ELSE Zero(TRUE))
    ELSE IF FLt(Dec(70978, -2), x) THEN Inf(1, TRUE)
    ELSE IF FLt(x, FInt(-745)) THEN Zero(TRUE)
    ELSE (CHOOSE r11 \in {ExpReduce(a11, b11) : a11 \in {x}, b11 \in {(CHOOSE r10 \in {ExpK(a10) : a10 \in {FDiv(x, LN10)}} : TRUE)}} : TRUE)

\* numpy.exp(x): a numpy.float64; inf when the result overflows.
FExp(x) == (CHOOSE r9 \in {ExpV(a9) : a9 \in {x}} : TRUE)

\* 1/1 + z2 * (1/3 + z2 * (1/5 + ...)): the series of atanh(z)/z, z2 = z^2.
RECURSIVE LogSeries(_, _, _)
LogSeries(z2, i, acc) ==
    IF i < 0 THEN acc
    ELSE CHOOSE s \in {LogSeries(z2, i - 1, a) :
                          a \in {FAdd(FDiv(One, FInt((2 * i) + 1)), FMul(z2, acc))}} : TRUE

\* 2 atanh(z), given z and z^2.
LogSum(z, z2) == FMul(FMul(FInt(2), z), LogSeries(z2, LogTerms, Zero(FALSE)))

\* ln y = 2 atanh((y - 1) / (y + 1)), for 1 <= y < 2.
LogZ(z) == (CHOOSE r8 \in {LogSum(a8, b8) : a8 \in {z}, b8 \in {FMul(z, z)}} : TRUE)

LogY(y) == (CHOOSE r7 \in {LogZ(a7) : a7 \in {FDiv(FSub(y, One), FAdd(y, One))}} : TRUE)

LogV(x) ==
    IF x.k = "err" THEN Err
    ELSE IF x.k = "cplx" THEN Cplx(TRUE)
    ELSE IF x.k = "nan" THEN NaN(TRUE)
    ELSE IF x.m < 0 THEN NaN(TRUE)
    ELSE IF x.k = "inf" THEN Inf(1, TRUE)
    ELSE IF x.m = 0 THEN Inf(-1, TRUE)
    ELSE LET j  == IF x.m < 2 * MantLo THEN 0 ELSE IF x.m < 4 * MantLo THEN 1
                   ELSE IF x.m < 8 * MantLo THEN 2 ELSE 3
             d  == IF j = 0 THEN 1 ELSE IF j = 1 THEN 2 ELSE IF j = 2 THEN 4 ELSE 8
         IN  AsNp(FAdd(FAdd((CHOOSE r6 \in {LogY(a6) : a6 \in {FDiv(Fin(x.m, -7, FALSE), FInt(d))}} : TRUE),
                            FMul(FInt(j), LN2)),
                       FMul(FInt(x.e + 7), LN10)))

\* numpy.log(x): a numpy.float64; nan for x < 0 and -inf for x = 0 (with a
\* warning).  x = y * 2^j * 10^n with 1 <= y < 2.
FLog(x) == (CHOOSE r5 \in {LogV(a5) : a5 \in {x}} : TRUE)

\* The result of a power: a built-in float power that overflows raises
\* OverflowError.
PowResult(r, np) == IF r.k = "inf" /\ ~np THEN Err ELSE [r EXCEPT !.np = np]

PowV(x, y) ==
    LET np == x.np \/ y.np
    IN  IF IsSpecial(x, y) THEN Special(x, y)
        ELSE IF x.k = "inf" THEN Inf(1, np)
        ELSE IF x.m = 0 THEN Zero(np)
        ELSE IF x.m < 0 THEN (IF np THEN NaN(TRUE) ELSE Cplx(FALSE))
        ELSE (CHOOSE r4 \in {PowResult(a4, b4) : a4 \in {FExp(FMul(y, FLog(x)))}, b4 \in {np}} : TRUE)

\* x ** y for a positive non-integer exponent y.  With a negative base the
\* built-in float power returns a complex number and numpy's power returns
\* nan (with a warning).
FPow(x, y) == (CHOOSE r3 \in {PowV(a3, b3) : a3 \in {x}, b3 \in {y}} : TRUE)

(***************************************************************************)
(* The module namespace of psychro.py and its five functions.  A function  *)
(* body reads the module-level names (Mv, Mda, R, p, pvs) from the         *)
(* namespace G it is evaluated in, as the interpreter does at call time.   *)
(***************************************************************************)
Mv == Dec(18015286, -6)

Mda == Dec(28966, -3)

R == Dec(831446261, -5)

\* A function object bound to a module-level name.
FnObj(name) == [k |-> name, m |-> 0, e |-> 0, np |-> FALSE]

Globals0 ==
    [Mv |-> Mv, Mda |-> Mda, R |-> R,
     p |-> FnObj("fn_p"), pvs |-> FnObj("fn_pvs"), w |-> FnObj("fn_w"),
     wsp |-> FnObj("fn_wsp"), v |-> FnObj("fn_v")]

\* None: an argument left out of the call, a name not bound yet.
None == [k |-> "none", m |-> 0, e |-> 0, np |-> FALSE]

\* The default Z=0 of w, wsp and v.

DefaultZ == FInt(0)

BindZ(Z) == IF Z.k = "none" THEN DefaultZ ELSE Z

\* x ** 2
SqV(a) == FMul(a, a)

Sq(a) == (CHOOSE r2 \in {SqV(a2) : a2 \in {a}} : TRUE)

\* p with the sign of the altitude term wrong.
p_plus(Z) ==
    FMul(FInt(101325),
         FPow(FAdd(FInt(1), FMul(Dec(225577, -10), Z)), Dec(52559, -4)))

p(Z) ==
    FMul(FInt(101325),
         FPow(FSub(FInt(1), FMul(Dec(225577, -10), Z)), Dec(52559, -4)))

C8 == Dec(-58002206, -4)

C9 == Dec(13914993, -7)

\* C10 with a digit dropped: -0.04864239.
C10_dropped == Dec(-4864239, -8)

C10 == Dec(-48640239, -9)

C11 == Dec(41764768, -12)

C12 == Dec(-14452093, -15)

C13 == Dec(65459673, -7)

\* T = t + 273.15
pvs_T(t) == FAdd(t, Dec(27315, -2))

\* pws = np.exp(C8 / T + C9 + C10 * T + C11 * T**2 + C12 * T**3 + C13 * np.log(T))
pvs_pws(T) ==
    FExp(FAdd(FAdd(FAdd(FAdd(FAdd(FDiv(C8, T), C9), FMul(C10, T)),
                        FMul(C11, Sq(T))),
                   FMul(C12, FMul(Sq(T), T))),
              FMul(C13, FLog(T))))

pvs(t) == (CHOOSE r1 \in {pvs_pws(a1) : a1 \in {pvs_T(t)}} : TRUE)

\* f(a) for the object f a module-level name is bound to: calling anything
\* but a function raises TypeError.
Apply1(f, a) ==
    IF f.k = "fn_p" THEN p(a)
    ELSE IF f.k = "fn_pvs" THEN pvs(a)
    ELSE Err

\* w with phi left out of the numerator.
w_nophi(G, t, phi, Z) ==
    FDiv(FMul(FDiv(G.Mv, G.Mda), Apply1(G.pvs, t)),
         FSub(Apply1(G.p, Z), FMul(phi, Apply1(G.pvs, t))))

\* w with the parentheses of the denominator left out:
\* Mv / Mda * phi * pvs(t) / p(Z) - phi * pvs(t)
w_noparens(G, t, phi, Z) ==
    FSub(FDiv(FMul(FMul(FDiv(G.Mv, G.Mda), phi), Apply1(G.pvs, t)), Apply1(G.p, Z)),
         FMul(phi, Apply1(G.pvs, t)))

\* Mv / Mda * phi * pvs(t) / (p(Z) - phi * pvs(t))
w(G, t, phi, Z) ==
    FDiv(FMul(FMul(FDiv(G.Mv, G.Mda), phi), Apply1(G.pvs, t)),
         FSub(Apply1(G.p, Z), FMul(phi, Apply1(G.pvs, t))))

wsp_a == Dec(172693882, -7)

\* b with the operands the other way round.
wsp_b_swapped == FSub(Dec(3586, -2), Dec(27316, -2))

wsp_b == FSub(Dec(27316, -2), Dec(3586, -2))

wsp_C == Dec(61078, -2)

\* es = C * np.exp(a * ts / (ts + b))
wsp_es(ts) == FMul(wsp_C, FExp(FDiv(FMul(wsp_a, ts), FAdd(ts, wsp_b))))

\* wp = Mv / Mda * a * b * p(Z) * es / ((ts + b)**2 * (p(Z) - es)**2)
wsp_wp(G, ts, Z, es) ==
    FDiv(FMul(FMul(FMul(FMul(FDiv(G.Mv, G.Mda), wsp_a), wsp_b), Apply1(G.p, Z)), es),
         FMul(Sq(FAdd(ts, wsp_b)), Sq(FSub(Apply1(G.p, Z), es))))

wsp(G, ts, Z) == CHOOSE r99 \in {wsp_wp(G, ts, Z, es) : es \in {wsp_es(ts)}} : TRUE

\* v with R divided by Mda instead of Mv.
v_Mda(G, t, wr, Z) ==
    FDiv(FMul(FMul(FDiv(G.R, G.Mda), FAdd(FDiv(G.Mv, G.Mda), wr)),
              FAdd(t, Dec(27315, -2))),
         Apply1(G.p, Z))

\* R / Mv * (Mv / Mda + w) * (t + 273.15) / p(Z)
v(G, t, wr, Z) ==
    FDiv(FMul(FMul(FDiv(G.R, G.Mv), FAdd(FDiv(G.Mv, G.Mda), wr)),
              FAdd(t, Dec(27315, -2))),
         Apply1(G.p, Z))


(***************************************************************************)
(* State.  Callers run the five functions statement by statement; pc is    *)
(* the line of psychro.py the caller's frame is at.                        *)
(***************************************************************************)
VARIABLES
    globals,    \* the module namespace: Mv, Mda, R, p, pvs, w, wsp, v
    frame,      \* per caller: the call in progress or last returned
    prev,       \* the result the (sequential) caller kept from an earlier call
    plot        \* the frame of the plotting helper chart or chartA

vars == <<globals, frame, prev, plot>>

\* Bounds of the model: the number of concurrent callers, the sizes of the
\* input grids, the number of processes handed to chartA.
NumCallers == 2

NT == 14

NPhi == 4

NZ == 3

MaxProc == 2

Callers == 1..NumCallers

\* Temperatures -10, 5, 20, ... [degC]; relative humidities 0, 0.25, ...;
\* altitudes -500, 3000, ... and 0 [m]; an altitude beyond 1/2.25577e-5 m.
TGrid == {FInt(15 * k - 10) : k \in 0..NT}

PhiGrid == {Dec(25 * k, -2) : k \in 0..NPhi}

ZGrid == {FInt(3500 * k - 500) : k \in 0..NZ} \cup {FInt(0)}

ZBeyond == FInt(50000)

\* Z as an argument of p: Python numbers, and elements of a numpy array.
PArgs == ZGrid \cup {ZBeyond} \cup {AsNp(z) : z \in {FInt(0), ZBeyond}}

\* Z as an argument of w, wsp, v: a Python number, or left out.
ZOpt == ZGrid \cup {ZBeyond, None}

WGrid == {FInt(0), Dec(1, -2)}

\* Inputs of the two-call (comparison) runs and of the concurrent runs.
TPair == {FInt(20), FInt(110), FInt(200)}

ZPair == {None, FInt(10000)}

ConcT == {FInt(20)}

ConcPhi == {Dec(5, -1), FInt(1)}

ConcZ == {FInt(0), FInt(3000)}

ConcW == {Dec(1, -2)}

IdleFrame ==
    [pc |-> "idle", fn |-> "none", t |-> None, phi |-> None, wr |-> None,
     Zin |-> None, Z |-> None, loc |-> None, val |-> None, ret |-> None]

IdlePlot ==
    [pc |-> "idle", fn |-> "none", phi |-> None, i |-> 0, j |-> 0, k |-> 0,
     nproc |-> 0, wel |-> None]

Init ==
    /\ globals = Globals0
    /\ frame = [c \in Callers |-> IdleFrame]
    /\ prev = IdleFrame
    /\ plot = IdlePlot

\* The frame of a call f(...) where f is what the name is bound to in the
\* module namespace: the function's first line with the arguments bound, or
\* TypeError when the name is not bound to the function any more.
Invoke(f, tag, pc0, t, phi, wr, Zin) ==
    IF f.k = tag
    THEN [IdleFrame EXCEPT !.pc = pc0, !.fn = tag, !.t = t, !.phi = phi,
                           !.wr = wr, !.Zin = Zin,
                           !.Z = IF tag = "fn_p" THEN Zin ELSE BindZ(Zin)]
    ELSE [IdleFrame EXCEPT !.pc = "done", !.fn = tag, !.t = t, !.phi = phi,
                           !.wr = wr, !.Zin = Zin, !.ret = Err]

CanCall(c) == frame[c].pc \in {"idle", "done"}

\* return val: the frame's locals go, the caller holds the result.
Return(c, val) ==
    /\ frame' = [frame EXCEPT ![c].pc = "done", ![c].loc = None,
                              ![c].val = None, ![c].ret = val]
    /\ UNCHANGED <<globals, prev, plot>>

\* A statement binding a local name.
Local(c, pc1, loc, val) ==
    /\ frame' = [frame EXCEPT ![c].pc = pc1, ![c].loc = loc, ![c].val = val]
    /\ UNCHANGED <<globals, prev, plot>>

Call_p(c, Zs) ==
    /\ CanCall(c)
    /\ \E Z \in Zs :
          frame' = [frame EXCEPT ![c] = Invoke(globals.p, "fn_p", "p20", None, None, None, Z)]
    /\ UNCHANGED <<globals, prev, plot>>

\* return 101325 * (1 - 2.25577e-5 * Z)**5.2559
P20(c) ==
    /\ frame[c].pc = "p20"
    /\ Return(c, p(frame[c].Z))

Call_pvs(c, Ts) ==
    /\ CanCall(c)
    /\ \E t \in Ts :
          frame' = [frame EXCEPT ![c] = Invoke(globals.pvs, "fn_pvs", "pvs28", t, None, None, None)]
    /\ UNCHANGED <<globals, prev, plot>>

\* import numpy as np (binds the local name np)
Pvs28(c) ==
    /\ frame[c].pc = "pvs28"
    /\ Local(c, "pvs29", None, None)

\* T = t + 273.15
Pvs29(c) ==
    /\ frame[c].pc = "pvs29"
    /\ Local(c, "pvs32", pvs_T(frame[c].t), None)

\* C8 = ... C13 = ...
Pvs32(c) ==
    /\ frame[c].pc = "pvs32"
    /\ Local(c, "pvs38", frame[c].loc, None)

\* pws = np.exp(...)
Pvs38(c) ==
    /\ frame[c].pc = "pvs38"
    /\ Local(c, "pvs40", frame[c].loc, pvs_pws(frame[c].loc))

\* return pws
Pvs40(c) ==
    /\ frame[c].pc = "pvs40"
    /\ Return(c, frame[c].val)

Call_w(c, Ts, Phis, Zs) ==
    /\ CanCall(c)
    /\ \E t \in Ts, phi \in Phis, Z \in Zs :
          frame' = [frame EXCEPT ![c] = Invoke(globals.w, "fn_w", "w50", t, phi, None, Z)]
    /\ UNCHANGED <<globals, prev, plot>>

\* The same statement with w declared global: it rebinds the module's w.
W50_global(c) ==
    /\ frame[c].pc = "w50"
    /\ globals' = [globals EXCEPT !.w = w(globals, frame[c].t, frame[c].phi, frame[c].Z)]
    /\ frame' = [frame EXCEPT ![c].pc = "w51"]
    /\ UNCHANGED <<prev, plot>>

\* w = Mv / Mda * phi * pvs(t) / (p(Z) - phi * pvs(t))
W50(c) ==
    /\ frame[c].pc = "w50"
    /\ Local(c, "w51", None, w(globals, frame[c].t, frame[c].phi, frame[c].Z))

\* return w
W51(c) ==
    /\ frame[c].pc = "w51"
    /\ Return(c, frame[c].val)

Call_wsp(c, Ts, Zs) ==
    /\ CanCall(c)
    /\ \E ts \in Ts, Z \in Zs :
          frame' = [frame EXCEPT ![c] = Invoke(globals.wsp, "fn_wsp", "wsp72", ts, None, None, Z)]
    /\ UNCHANGED <<globals, prev, plot>>

\* a = 17.2693882; b = 273.16 - 35.86; C = 610.78
Wsp72(c) ==
    /\ frame[c].pc = "wsp72"
    /\ Local(c, "wsp75", None, None)

\* es = C * np.exp(a * ts / (ts + b))
Wsp75(c) ==
    /\ frame[c].pc = "wsp75"
    /\ Local(c, "wsp77", wsp_es(frame[c].t), None)

\* wp = Mv / Mda * a * b * p(Z) * es / ((ts + b)**2 * (p(Z) - es)**2)
Wsp77(c) ==
    /\ frame[c].pc = "wsp77"
    /\ Local(c, "wsp79", frame[c].loc,
             wsp_wp(globals, frame[c].t, frame[c].Z, frame[c].loc))

\* return wp
Wsp79(c) ==
    /\ frame[c].pc = "wsp79"
    /\ Return(c, frame[c].val)

Call_v(c, Ts, Ws, Zs) ==
    /\ CanCall(c)
    /\ \E t \in Ts, wr \in Ws, Z \in Zs :
          frame' = [frame EXCEPT ![c] = Invoke(globals.v, "fn_v", "v90", t, None, wr, Z)]
    /\ UNCHANGED <<globals, prev, plot>>

\* v = R / Mv * (Mv / Mda + w) * (t + 273.15) / p(Z)
V90(c) ==
    /\ frame[c].pc = "v90"
    /\ Local(c, "v91", None, v(globals, frame[c].t, frame[c].wr, frame[c].Z))

\* return v
V91(c) ==
    /\ frame[c].pc = "v91"
    /\ Return(c, frame[c].val)

\* The sequential caller keeps the result of the call that returned.
Keep(c) ==
    /\ frame[c].pc = "done"
    /\ prev # frame[c]
    /\ prev' = frame[c]
    /\ UNCHANGED <<globals, frame, plot>>

\* One caller, calling the five functions one after the other.
Next ==
    \/ Call_p(1, PArgs)
    \/ P20(1)
    \/ Call_pvs(1, TGrid)
    \/ Pvs28(1)
    \/ Pvs29(1)
    \/ Pvs32(1)
    \/ Pvs38(1)
    \/ Pvs40(1)
    \/ Call_w(1, TGrid, PhiGrid, ZOpt)
    \/ W50(1)
    \/ W51(1)
    \/ Call_wsp(1, TGrid, ZOpt)
    \/ Wsp72(1)
    \/ Wsp75(1)
    \/ Wsp77(1)
    \/ Wsp79(1)
    \/ Call_v(1, TGrid, WGrid, ZOpt)
    \/ V90(1)
    \/ V91(1)

Spec == Init /\ [][Next]_vars

\* One caller making calls of p and of w in a row, keeping earlier results.
NextPair ==
    \/ Call_p(1, ZGrid)
    \/ P20(1)
    \/ Call_w(1, TPair, PhiGrid, ZPair)
    \/ W50(1)
    \/ W51(1)
    \/ Keep(1)

SpecPair == Init /\ [][NextPair]_vars

\* Concurrent callers sharing the module namespace.
NextConc ==
    \E c \in Callers :
        \/ Call_p(c, ConcZ)
        \/ P20(c)
        \/ Call_pvs(c, ConcT)
        \/ Pvs28(c)
        \/ Pvs29(c)
        \/ Pvs32(c)
        \/ Pvs38(c)
        \/ Pvs40(c)
        \/ Call_w(c, ConcT, ConcPhi, {None})
        \/ W50(c)
        \/ W51(c)
        \/ Call_wsp(c, ConcT, {None})
        \/ Wsp72(c)
        \/ Wsp75(c)
        \/ Wsp77(c)
        \/ Wsp79(c)
        \/ Call_v(c, ConcT, ConcW, {None})
        \/ V90(c)
        \/ V91(c)

SpecConc == Init /\ [][NextConc]_vars

(***************************************************************************)
(* The plotting helpers.  chart and chartA call psy.w on the array t_range *)
(* (their default argument); numpy evaluates w element by element, and the *)
(* model takes one step per element: plot.j is the index of the element    *)
(* being computed, plot.phi the phi argument of the call.                  *)
(***************************************************************************)
ArangeLenV(q) == ToInt(q) + (IF FLt(FInt(ToInt(q)), q) THEN 1 ELSE 0)

\* np.arange(start, stop, step): ceil((stop - start) / step) elements
Arange(start, stop, step) ==
    [start |-> start, step |-> step,
     n |-> CHOOSE r \in {ArangeLenV(q) : q \in {FDiv(FSub(stop, start), step)}} : TRUE]

\* Element j of np.arange(start, stop, step): start + j * step
At(rng, j) == AsNp(FAdd(rng.start, FMul(FInt(j), rng.step)))

\* chart: t_range=np.arange(-10, 50, 0.1); for phi in np.arange(0, 100, 20)
ChartT == Arange(FInt(-10), FInt(50), Dec(1, -1))

ChartPhi == Arange(FInt(0), FInt(100), FInt(20))

\* chartA: t_range=np.arange(-10, 50, 5); for phi in np.arange(0, 1, 0.2)
ChartAT == Arange(FInt(-10), FInt(50), FInt(5))

ChartAPhi == Arange(FInt(0), FInt(1), Dec(2, -1))

\* psy.w(t, phi): the module attribute w, called with Z left out
CallW(G, t, phi) == IF G.w.k = "fn_w" THEN w(G, t, phi, DefaultZ) ELSE Err

\* One more element of psy.w(t_range, phi); after the last one, go to pc1
\* with the loop index i1.
Elementwise(rng, pc1, i1) ==
    plot' = [plot EXCEPT !.wel = CallW(globals, At(rng, plot.j), plot.phi),
                         !.j = IF plot.j + 1 < rng.n THEN plot.j + 1 ELSE 0,
                         !.i = IF plot.j + 1 < rng.n THEN plot.i ELSE i1,
                         !.pc = IF plot.j + 1 < rng.n THEN plot.pc ELSE pc1]

\* chart(t, w): the figure is set up (lines 109-118)
Call_chart ==
    /\ plot.pc \in {"idle", "done"}
    /\ plot' = [IdlePlot EXCEPT !.pc = "c119", !.fn = "chart", !.phi = FInt(100)]
    /\ UNCHANGED <<globals, frame, prev>>

\* plt.plot(t_range, psy.w(t_range, 100), linewidth=2)
C119 ==
    /\ plot.pc = "c119"
    /\ Elementwise(ChartT, "c122", 0)
    /\ UNCHANGED <<globals, frame, prev>>

\* for phi in np.arange(0, 100, 20):
C122 ==
    /\ plot.pc = "c122"
    /\ plot' = IF plot.i < ChartPhi.n
               THEN [plot EXCEPT !.phi = At(ChartPhi, plot.i), !.pc = "c123"]
               ELSE [plot EXCEPT !.phi = None, !.pc = "c128"]
    /\ UNCHANGED <<globals, frame, prev>>

\* w4t = psy.w(t_range, phi), then the curve is plotted and annotated
C123 ==
    /\ plot.pc = "c123"
    /\ Elementwise(ChartT, "c122", plot.i + 1)
    /\ UNCHANGED <<globals, frame, prev>>

\* plt.plot(t, w, linewidth=3); return None
C128 ==
    /\ plot.pc = "c128"
    /\ plot' = [plot EXCEPT !.pc = "done", !.wel = None]
    /\ UNCHANGED <<globals, frame, prev>>

\* chartA(t, wv, A) with A.shape[0] processes: the figure is set up
Call_chartA ==
    /\ plot.pc \in {"idle", "done"}
    /\ \E n \in 0..MaxProc :
          plot' = [IdlePlot EXCEPT !.pc = "a167", !.fn = "chartA", !.phi = FInt(1),
                                   !.nproc = n]
    /\ UNCHANGED <<globals, frame, prev>>

\* plt.plot(t_range, psy.w(t_range, 1), linewidth=2)
A167 ==
    /\ plot.pc = "a167"
    /\ Elementwise(ChartAT, "a170", 0)
    /\ UNCHANGED <<globals, frame, prev>>

\* for phi in np.arange(0, 1, 0.2):
A170 ==
    /\ plot.pc = "a170"
    /\ plot' = IF plot.i < ChartAPhi.n
               THEN [plot EXCEPT !.phi = At(ChartAPhi, plot.i), !.pc = "a171"]
               ELSE [plot EXCEPT !.phi = None, !.pc = "a177"]
    /\ UNCHANGED <<globals, frame, prev>>

\* w4t = psy.w(t_range, phi), then the curve is plotted and annotated
A171 ==
    /\ plot.pc = "a171"
    /\ Elementwise(ChartAT, "a170", plot.i + 1)
    /\ UNCHANGED <<globals, frame, prev>>

\* for k in range(0, A.shape[0]): the process k is plotted; return None
A177 ==
    /\ plot.pc = "a177"
    /\ plot' = IF plot.k < plot.nproc
               THEN [plot EXCEPT !.k = plot.k + 1]
               ELSE [plot EXCEPT !.pc = "done", !.wel = None]
    /\ UNCHANGED <<globals, frame, prev>>

NextChart ==
    \/ Call_chart
    \/ C119
    \/ C122
    \/ C123
    \/ C128
    \/ Call_chartA
    \/ A167
    \/ A170
    \/ A171
    \/ A177

SpecChart == Init /\ [][NextChart]_vars

(***************************************************************************)
(* Properties.                                                             *)
(***************************************************************************)
Pos(a) == a.k = "fin" /\ a.m > 0

IsZero(a) == a.k = "fin" /\ a.m = 0

InRange(a, lo, hi) == FLe(FInt(lo), a) /\ FLe(a, FInt(hi))

Done(c, fn) == frame[c].pc = "done" /\ frame[c].fn = fn

\* C1: a call w(t, phi, Z) with phi*pvs(t) >= p(Z) ends in a domain error
\* (a raised exception), never in a returned value.
C1_DomainErrorOutcome ==
    \A c \in Callers :
        ( /\ Done(c, "fn_w")
          /\ FLe(p(frame[c].Z), FMul(frame[c].phi, pvs(frame[c].t))) )
        => frame[c].ret.k = "err"

\* C2: p(Z) with a negative base 1 - 2.25577e-5*Z ends in an error or nan, for
\* a scalar Z and for an array Z alike.
C2_NegativeBaseErrorOrNaN ==
    \A c \in Callers :
        ( /\ Done(c, "fn_p")
          /\ FLt(FSub(FInt(1), FMul(Dec(225577, -10), frame[c].Z)), FInt(0)) )
        => frame[c].ret.k \in {"err", "nan"}

\* The result of the call in frame f made alone, in the initial namespace.
SeqResult(f) ==
    IF f.fn = "fn_p" THEN p(f.Z)
    ELSE IF f.fn = "fn_pvs" THEN pvs(f.t)
    ELSE IF f.fn = "fn_w" THEN w(Globals0, f.t, f.phi, f.Z)
    ELSE IF f.fn = "fn_wsp" THEN wsp(Globals0, f.t, f.Z)
    ELSE v(Globals0, f.t, f.wr, f.Z)

\* C3: under any interleaving of the callers' steps the module namespace
\* (Mv, Mda, R, p, pvs, w, wsp, v) stays as it was, and every call returns
\* what the same call returns when made alone.
C3_Pure ==
    /\ globals = Globals0
    /\ \A c \in Callers :
          frame[c].pc = "done" => frame[c].ret = SeqResult(frame[c])

\* A call of w has returned while another caller is in the middle of wsp.
C3_Witness ==
    \E c, d \in Callers :
        /\ c # d
        /\ Done(c, "fn_w")
        /\ IsFin(frame[c].ret)
        /\ frame[d].pc = "wsp77"

\* C4: w(t, 0, Z) is exactly 0 for every valid t and Z (p(Z) > 0, pvs(t)
\* finite and positive).
C4_ZeroHumidity ==
    \A c \in Callers :
        ( /\ Done(c, "fn_w")
          /\ IsZero(frame[c].phi)
          /\ Pos(p(frame[c].Z))
          /\ Pos(pvs(frame[c].t)) )
        => IsZero(frame[c].ret)

C4_Witness ==
    \E c \in Callers :
        /\ Done(c, "fn_w")
        /\ IsZero(frame[c].phi)
        /\ FEq(frame[c].t, FInt(20))
        /\ FEq(frame[c].Z, FInt(10000))
        /\ Pos(p(frame[c].Z))

\* Two calls of w in a row with the same t and Z, t in [-10, 200], Z in
\* [-500, 10000], and phi1 < phi2 in [0, 1]: prev holds the first.
PairW ==
    /\ prev.pc = "done" /\ prev.fn = "fn_w"
    /\ Done(1, "fn_w")
    /\ prev.t = frame[1].t /\ prev.Z = frame[1].Z
    /\ InRange(frame[1].t, -10, 200)
    /\ InRange(frame[1].Z, -500, 10000)
    /\ InRange(prev.phi, 0, 1) /\ InRange(frame[1].phi, 0, 1)
    /\ FLt(prev.phi, frame[1].phi)

BelowSaturation(f) == FLt(FMul(f.phi, pvs(f.t)), p(f.Z))

PvsFormula(c8, c9, c10, c11, c12, c13, t) ==
    CHOOSE r \in {
        FExp(FAdd(FAdd(FAdd(FAdd(FAdd(FDiv(c8, T), c9), FMul(c10, T)),
                            FMul(c11, FMul(T, T))),
                       FMul(c12, FMul(FMul(T, T), T))),
                  FMul(c13, FLog(T)))) : T \in {FAdd(t, Dec(27315, -2))}} : TRUE

\* pvs uses the constants c8 .. c13: once they are bound (line 38 on) they
\* have these values, and the value returned is the formula's.
PvsUses(c8, c9, c10, c11, c12, c13) ==
    \A c \in Callers :
        /\ frame[c].pc \in {"pvs38", "pvs40"} =>
              <<C8, C9, C10, C11, C12, C13>> = <<c8, c9, c10, c11, c12, c13>>
        /\ Done(c, "fn_pvs") =>
              FEq(frame[c].ret, PvsFormula(c8, c9, c10, c11, c12, c13, frame[c].t))

\* C6 as stated: pvs evaluates the formula with C8=-5800.2206, C9=1.3914993,
\* C10=-0.04864239, C11=4.1764768e-5, C12=-1.4452093e-8, C13=6.5459673.
C6_StatedConstants ==
    PvsUses(Dec(-58002206, -4), Dec(13914993, -7), Dec(-4864239, -8),
            Dec(41764768, -12), Dec(-14452093, -15), Dec(65459673, -7))

\* C6 amended: pvs evaluates the formula with C8=-5800.2206, C9=1.3914993,
\* C10=-0.048640239, C11=4.1764768e-5, C12=-1.4452093e-8, C13=6.5459673.
C6_AmendedConstants ==
    PvsUses(Dec(-58002206, -4), Dec(13914993, -7), Dec(-48640239, -9),
            Dec(41764768, -12), Dec(-14452093, -15), Dec(65459673, -7))

C6_Witness ==
    \E c \in Callers :
        /\ Done(c, "fn_pvs")
        /\ FEq(frame[c].t, FInt(20))
        /\ Pos(frame[c].ret)

\* A frame of wsp(ts, Z=0) with ts in [-10, 50].
WspAtSeaLevel(f) ==
    /\ f.fn = "fn_wsp"
    /\ InRange(f.t, -10, 50)
    /\ IsZero(f.Z)

\* C7: wsp(ts, 0) is finite and strictly positive for ts in [-10, 50]: every
\* factor of (Mv/Mda)*a*b*p(Z)*es / ((ts+b)^2 * (p(Z)-es)^2) is positive and
\* the denominator is not zero.
C7_WspPositive ==
    \A c \in Callers :
        WspAtSeaLevel(frame[c]) =>
            /\ frame[c].pc = "wsp77" =>
                  /\ Pos(FDiv(globals.Mv, globals.Mda))
                  /\ Pos(wsp_a) /\ Pos(wsp_b)
                  /\ Pos(p(frame[c].Z))
                  /\ Pos(frame[c].loc)
                  /\ Pos(Sq(FAdd(frame[c].t, wsp_b)))
                  /\ Pos(Sq(FSub(p(frame[c].Z), frame[c].loc)))
            /\ frame[c].pc = "wsp79" => Pos(frame[c].val)
            /\ frame[c].pc = "done" => Pos(frame[c].ret)

C7_Witness ==
    \E c \in Callers :
        /\ WspAtSeaLevel(frame[c])
        /\ frame[c].pc = "done"
        /\ FEq(frame[c].t, FInt(50))

\* (R/Mv)*(Mv/Mda)*(t+273.15)/101325
DryAirVolume(t) ==
    FDiv(FMul(FMul(FDiv(R, Mv), FDiv(Mv, Mda)), FAdd(t, Dec(27315, -2))),
         FInt(101325))

\* |a - b| <= tol
Within(a, b, tol) == FLe(FSub(a, b), tol) /\ FLe(FSub(b, a), tol)

\* C8: v(t, 0, 0), and v(t, 0) with Z left out, equal
\* (R/Mv)*(Mv/Mda)*(t+273.15)/101325; at t = 20 the value is within 1e-3 of
\* 0.8301.
C8_DryAirVolume ==
    \A c \in Callers :
        ( /\ Done(c, "fn_v")
          /\ IsZero(frame[c].wr)
          /\ frame[c].Zin \in {None, FInt(0)} )
        => /\ FEq(frame[c].ret, DryAirVolume(frame[c].t))
           /\ FEq(frame[c].t, FInt(20)) =>
                 Within(frame[c].ret, Dec(8301, -4), Dec(1, -3))

C8_Witness ==
    \E c \in Callers :
        /\ Done(c, "fn_v")
        /\ IsZero(frame[c].wr)
        /\ frame[c].Zin = None
        /\ FEq(frame[c].t, FInt(20))

\* Two calls of p in a row, Z1 < Z2 both in [-500, 10000]: prev holds p(Z1).
PairP ==
    /\ prev.pc = "done" /\ prev.fn = "fn_p"
    /\ Done(1, "fn_p")
    /\ InRange(prev.Z, -500, 10000) /\ InRange(frame[1].Z, -500, 10000)
    /\ FLt(prev.Z, frame[1].Z)

\* C9: p(Z1) > p(Z2) for all Z1 < Z2 in [-500, 10000], and p is positive there.
C9_PressureDecreasing ==
    PairP => /\ FLt(frame[1].ret, prev.ret)
             /\ Pos(frame[1].ret) /\ Pos(prev.ret)

C9_Witness ==
    /\ PairP
    /\ FEq(prev.Z, FInt(-500))
    /\ FEq(frame[1].Z, FInt(10000))

\* The t_range element the plotting helper is computing w for.
PlotT == At(IF plot.fn = "chart" THEN ChartT ELSE ChartAT, plot.j)

\* C10: every call of w by chart and chartA passes phi in [0, 1] with
\* phi*pvs(t) < p(0) for every t of the default t_range, and the saturation
\* curve is drawn with phi = 1.
C10_ChartCallsInDomain ==
    plot.pc \in {"c119", "c123", "a167", "a171"} =>
        /\ InRange(plot.phi, 0, 1)
        /\ FLt(FMul(plot.phi, pvs(PlotT)), p(FInt(0)))
        /\ plot.pc \in {"c119", "a167"} => FEq(plot.phi, FInt(1))
====
